---- MODULE Spec2Model ----
(***************************************************************************)
(* SpecLedger: a static, client-rendered phone comparison site.            *)
(*                                                                         *)
(*  - src/unnamed/part_000  boot script of the index and detail pages:     *)
(*    loadPhones (candidate paths) and the DOMContentLoaded handler.       *)
(*  - src/assets/js/site.js comparison pages: two immediately-invoked      *)
(*    modules, each with fetchPhonesData, generateComparisonTable,         *)
(*    displayPhonesList and init.                                          *)
(*  - src/unnamed/part_001  the later version of that script with the      *)
(*    comparison builder of phone-compare.html (dropdowns, compare button, *)
(*    pushState).                                                          *)
(*                                                                         *)
(* Strings that the code builds by concatenation are sequences of tokens,  *)
(* so that joining, flattening and templating are computed, not assumed.   *)
(***************************************************************************)
EXTENDS Integers, Sequences, FiniteSets, TLC

\* ------------------------------------------------------------------ bounds
\* longest requested identifier list (tokens of ?ids= / data-ids)
MaxIds == 2
\* longest dataset (records of the JSON array)
MaxData == 2
\* most leaves of a nested-object field value (flattenValue inputs)
MaxLeaves == 3
\* most input/change events a visitor fires on the controls of the index page
MaxEvents == 2
\* most clicks on the compare button that pass its validation
MaxClicks == 2

\* ------------------------------------------------------- JavaScript values
\* A primitive is [t, v]: its type tag and its String() form.
Prim(t, v) == [t |-> t, v |-> v]

\* A field value: a primitive, null/undefined, or an object with ordered
\* leaf values (Object.values order).
Str(s) == [t |-> "str", v |-> s, leaves |-> <<>>]

Num(s) == [t |-> "num", v |-> s, leaves |-> <<>>]

Null == [t |-> "null", v |-> "null", leaves |-> <<>>]

Undefined == [t |-> "undefined", v |-> "undefined", leaves |-> <<>>]

Obj(ls) == [t |-> "obj", v |-> "[object Object]", leaves |-> ls]

\* JavaScript truthiness of a primitive (filter(v => v), `x ? .. : ..`).
Truthy(l) ==
  ~ \/ l.t \in {"null", "undefined"}
    \/ (l.t = "str" /\ l.v = "")
    \/ (l.t = "num" /\ l.v \in {"0", "NaN"})
    \/ (l.t = "bool" /\ l.v = "false")

\* Array.prototype.join on display strings: the parts with sep between them.
RECURSIVE Join(_, _)
Join(parts, sep) ==
  IF Len(parts) = 0 THEN <<>>
  ELSE IF Len(parts) = 1 THEN parts[1]
  ELSE parts[1] \o sep \o Join(Tail(parts), sep)

\* the placeholder glyph U+2014 (em dash) of flattenValue
DASH == "--"

\* the separator of flattenValue
SEP == " / "

\* ------------------------------------------------------------ flattenValue
\* variant: every leaf is joined, falsy or not
FlattenJoinsAllLeaves(value) ==
  IF value.t \in {"null", "undefined"} THEN <<DASH>>
  ELSE IF value.t = "obj"
    THEN Join([i \in 1..Len(value.leaves) |-> <<value.leaves[i].v>>], <<SEP>>)
    ELSE <<value.v>>

flattenValue(value) ==
  IF value.t \in {"null", "undefined"} THEN <<DASH>>
  ELSE IF value.t = "obj"
    THEN LET kept == SelectSeq(value.leaves, Truthy)
         IN  Join([i \in 1..Len(kept) |-> <<kept[i].v>>], <<SEP>>)
    ELSE <<value.v>>

\* ------------------------------------------------------------ phone records
\* A record is its own keys in insertion order (Object.keys), each with a
\* value: a sequence of [k, v] pairs.
Keys(p) == {p[i].k : i \in 1..Len(p)}

\* property read p[k]: undefined for a key the record lacks
Get(p, k) ==
  IF k \in Keys(p)
    THEN p[CHOOSE i \in 1..Len(p) : p[i].k = k /\ \A j \in 1..(i-1) : p[j].k # k].v
    ELSE Undefined

\* template literal `${v}` / String(v)
String(v) == v.v

PhoneA ==
  << [k |-> "id", v |-> Str("a")],
     [k |-> "brand", v |-> Str("Acme")],
     [k |-> "model", v |-> Str("X1")],
     [k |-> "os", v |-> Null],
     [k |-> "display", v |-> Obj(<<Prim("str", "6.1"), Prim("null", "null"), Prim("str", "OLED")>>)],
     [k |-> "memory", v |-> Obj(<<Prim("num", "8")>>)],
     [k |-> "source_url", v |-> Str("https://acme.example/x1")] >>

PhoneB ==
  << [k |-> "source_url", v |-> Str("https://bolt.example/b2")],
     [k |-> "camera", v |-> Obj(<<Prim("str", ""), Prim("num", "0")>>)],
     [k |-> "ram_gb", v |-> Num("12")],
     [k |-> "model", v |-> Str("B2")],
     [k |-> "brand", v |-> Str("Bolt")],
     [k |-> "id", v |-> Str("b")] >>

\* a second record carrying the id "a" (uniqueness of id is never enforced)
PhoneA2 ==
  << [k |-> "id", v |-> Str("a")],
     [k |-> "brand", v |-> Str("Acme")],
     [k |-> "model", v |-> Str("X1 Pro")],
     [k |-> "chipset", v |-> Str("Z1")] >>

\* a record with no id and no brand (no field is guaranteed present)
PhoneNoId ==
  << [k |-> "model", v |-> Str("Ghost")],
     [k |-> "battery_mah", v |-> Num("5000")] >>

\* A leaf of a nested object together with its key.
Field(k, t, v) == [t |-> t, v |-> v, k |-> k]

\* optional chaining value?.k: the leaf of an object stored under key k;
\* undefined for null, undefined, a primitive, or an object without that key
Prop(value, k) ==
  IF value.t = "obj" /\ \E i \in 1..Len(value.leaves) :
                          "k" \in DOMAIN value.leaves[i] /\ value.leaves[i].k = k
    THEN LET i == CHOOSE i \in 1..Len(value.leaves) :
                    "k" \in DOMAIN value.leaves[i] /\ value.leaves[i].k = k
         IN  [t |-> value.leaves[i].t, v |-> value.leaves[i].v, leaves |-> <<>>]
    ELSE Undefined

\* the record of the index scenario: its chipset is an object with a name
PhoneZ ==
  << [k |-> "id", v |-> Str("a")],
     [k |-> "brand", v |-> Str("Acme")],
     [k |-> "model", v |-> Str("X1")],
     [k |-> "chipset", v |-> Obj(<<Field("name", "str", "Z1")>>)] >>

Phones == {PhoneA, PhoneB, PhoneA2, PhoneNoId}

\* the datasets: every array of at most MaxData different records
Datasets ==
  {D \in UNION {[1..n -> Phones] : n \in 0..MaxData} :
     \A i, j \in 1..Len(D) : i # j => D[i] # D[j]}

\* ------------------------------------------------- generateComparisonTable
\* phones.find(p => p.id === id): index of the first record whose id is the
\* string id, 0 when find returns undefined
Find(phones, id) ==
  IF \E i \in 1..Len(phones) : Get(phones[i], "id") = Str(id)
    THEN CHOOSE i \in 1..Len(phones) :
           /\ Get(phones[i], "id") = Str(id)
           /\ \A j \in 1..(i-1) : Get(phones[j], "id") # Str(id)
    ELSE 0

\* variant: the matching records in dataset order
SelectedInDatasetOrder(selectedIds, phones) ==
  SelectSeq(phones, LAMBDA p :
    \E i \in 1..Len(selectedIds) : Get(p, "id") = Str(selectedIds[i]))

\* selectedIds.map(id => phones.find(..)).filter(p => p !== undefined)
SelectedPhones(selectedIds, phones) ==
  LET found == [i \in 1..Len(selectedIds) |-> Find(phones, selectedIds[i])]
      hits  == SelectSeq(found, LAMBDA j : j # 0)
  IN  [n \in 1..Len(hits) |-> phones[hits[n]]]

specOrder ==
  << "brand", "model", "release_year", "display", "chipset", "ram_gb",
     "storage_gb", "battery_mah", "camera", "os" >>

specLabels ==
  [ brand |-> "Brand", model |-> "Model", release_year |-> "Release Year",
    display |-> "Display", chipset |-> "Chipset", ram_gb |-> "RAM",
    storage_gb |-> "Storage", battery_mah |-> "Battery", camera |-> "Camera",
    os |-> "Operating System" ]

\* the Set allSpecs: every own key of a selected record except id, source_url
AllSpecs(selectedPhones) ==
  UNION {Keys(selectedPhones[i]) \ {"id", "source_url"} : i \in 1..Len(selectedPhones)}

\* variant: only the keys of the first record make rows
SpecRowsOfFirstRecord(selectedPhones) ==
  LET shown == SelectSeq(specOrder, LAMBDA s : s \in Keys(selectedPhones[1]) \ {"id", "source_url"})
  IN  [r \in 1..Len(shown) |->
        [ label |-> specLabels[shown[r]],
          cells |-> [c \in 1..Len(selectedPhones) |->
                       flattenValue(Get(selectedPhones[c], shown[r]))] ]]

\* specOrder.filter(spec => allSpecs.has(spec)).map(spec => <tr>..</tr>)
SpecRows(selectedPhones) ==
  LET shown == SelectSeq(specOrder, LAMBDA s : s \in AllSpecs(selectedPhones))
  IN  [r \in 1..Len(shown) |->
        [ label |-> specLabels[shown[r]],
          cells |-> [c \in 1..Len(selectedPhones) |->
                       flattenValue(Get(selectedPhones[c], shown[r]))] ]]

\* the Source row appended to the table body
SourceRow(selectedPhones) ==
  [ label |-> "Source",
    cells |-> [c \in 1..Len(selectedPhones) |->
                 << "<a href=", String(Get(selectedPhones[c], "source_url")), ">View Specs</a>" >>] ]

\* the header row: the label cell, then one cell per selected phone
HeaderRow(selectedPhones) ==
  << <<"Specification">> >> \o
  [c \in 1..Len(selectedPhones) |->
     << String(Get(selectedPhones[c], "brand")), "<br>", String(Get(selectedPhones[c], "model")) >>]

\* the placeholder rows and messages of generateComparisonTable
NeutralRow ==
  [ label |-> "Select phones to compare using URL parameters (e.g., ?ids=google-pixel-10,google-pixel-10-pro)",
    cells |-> <<>> ]

NoMatchRow == [label |-> "No phones found with provided IDs.", cells |-> <<>>]

ErrorRow == [label |-> "Error loading data.", cells |-> <<>>]

NoValidIdsMessage == "No valid phone IDs found. Check the available phones list below."

LoadErrorMessage == "Error loading comparison data. Please try again."

\* models: `${p.brand} ${p.model}` joined by ' vs '
Models(selectedPhones) ==
  Join([c \in 1..Len(selectedPhones) |->
          << String(Get(selectedPhones[c], "brand")), " ", String(Get(selectedPhones[c], "model")) >>],
       <<" vs ">>)

\* ------------------------------------------------------- URL and data-ids
\* A parameter or attribute value is the comma-separated pieces of its text;
\* a piece is an identifier, possibly padded with white space.  The empty
\* text is the single unpadded empty piece; <<>> stands for null (absent).
Piece(core) == [pad |-> FALSE, core |-> core]

Padded(core) == [pad |-> TRUE, core |-> core]

Pieces == {Piece("a"), Piece("b"), Piece("x"), Piece(""), Padded("a")}

RawLists == UNION {[1..n -> Pieces] : n \in 1..MaxIds}

EmptyText == <<Piece("")>>

\* text.split(',').map(id => id.trim())
SplitTrim(raw) == [i \in 1..Len(raw) |-> raw[i].core]

\* getQueryParams: ids ? ids.split(',').map(trim) : []
getQueryParams(loc) ==
  IF loc.ids # <<>> /\ loc.ids # EmptyText THEN SplitTrim(loc.ids) ELSE <<>>

\* hasQueryParams: window.location.search.length > 0
hasQueryParams(loc) == loc.query

\* isProgrammaticPage: document.querySelector('[data-ids]') !== null
isProgrammaticPage(attr) == attr.present

\* variant: the ids parameter of the URL is read first, data-ids second
QueryParamsFirst(loc, attr) ==
  IF loc.ids # <<>> \/ ~attr.present
    THEN getQueryParams(loc)
    ELSE IF attr.raw # EmptyText THEN SplitTrim(attr.raw) ELSE <<>>

\* getComparisonIds: the data-ids attribute when an element carries one,
\* else the query parameters
getComparisonIds(loc, attr) ==
  IF attr.present
    THEN IF attr.raw # EmptyText THEN SplitTrim(attr.raw) ELSE <<>>
    ELSE getQueryParams(loc)

\* ---------------------------------------------------------- the data file
\* What a fetch of a dataset URL yields: a network error, a non-success
\* status, a body that is not JSON, or a JSON document.  A document is a
\* bare array of records, an object with the array under "items"
\* ("wrapped"), an object with no "items" key ("nokey"), or an object whose
\* "items" is a number ("scalar").
Doc(kind, recs) == [kind |-> kind, recs |-> recs]

Response(status, doc) == [status |-> status, doc |-> doc]

NoDoc == Doc("none", <<>>)

Failures == {Response(st, NoDoc) : st \in {"neterr", "notok", "badjson"}}

ObjectDocs(D) == {Doc("wrapped", D), Doc("nokey", <<>>), Doc("scalar", <<>>)}

\* fetchPhonesData: the parsed JSON as it is; on any failure console.error
\* and the empty array
fetchPhonesData(resp) ==
  IF resp.status = "ok"
    THEN [value |-> resp.doc, logged |-> FALSE]
    ELSE [value |-> Doc("array", <<>>), logged |-> TRUE]

\* ------------------------------------------------------------------ state
VARIABLES
  page,      \* which page shell the script runs in
  loc,       \* window.location: [query, ids, id, depth] (search non-empty, the
             \* ids and id parameters, entries pushed onto the history)
  attr,      \* the [data-ids] element: [present, raw]
  server,    \* what a fetch of ../data/phones.json yields
  phase,     \* "loading" until DOMContentLoaded has been handled
  pending,   \* async calls suspended at `await fetchPhonesData()`
  dom,       \* the parts of the document the scripts read and write
  console,   \* number of console.error calls, by call site
  run,       \* locals of the generateComparisonTable call that completed last
             \* (again: it rendered the record list the call before it rendered)
  boot,      \* the boot script of the index and detail pages
  fv         \* one application of flattenValue: [value, out, done]

vars == <<page, loc, attr, server, phase, pending, dom, console, run, boot, fv>>

\* The page shells (markup outside the scripts): the element ids each holds.
ComparisonShell ==
  {"comparison-table", "header-row", "table-body", "error-message",
   "title", "description", "page-title"}

Shell ==
  [ dynamic |-> ComparisonShell \cup {"phones-list"},
    static  |-> ComparisonShell,
    plain   |-> {"title", "description"},
    builder |-> ComparisonShell \cup
                  {"phones-list", "comparison-form", "phone-select-1",
                   "phone-select-2", "compare-btn", "builder-error"},
    index   |-> {"q", "brand", "count", "grid", "load-error"},
    phone   |-> {"found", "notfound", "load-error"} ]

Has(el) == el \in Shell[page]

NoLocation == [query |-> FALSE, ids |-> <<>>]

\* every location: no query string, a query string without ids, or ?ids=..
Locations ==
  {NoLocation, [query |-> TRUE, ids |-> <<>>]}
    \cup {[query |-> TRUE, ids |-> raw] : raw \in RawLists}

NoAttr == [present |-> FALSE, raw |-> <<>>]

Markup == <<"(markup)">>

InitialDom ==
  [ tableHeader  |-> << <<"Specification">> >>,
    tableBody    |-> <<>>,
    errorDisplay |-> "none",
    errorText    |-> "",
    title        |-> Markup,
    description  |-> Markup,
    heading      |-> Markup,
    jsonld       |-> <<>>,
    robots       |-> "",
    canonical    |-> "",
    phonesList   |-> [kind |-> "markup", items |-> <<>>],
    loadErrorHidden |-> TRUE,
    loadErrorText   |-> "",
    view         |-> "markup",
    q            |-> <<>>,
    brand        |-> "",
    brandOptions |-> {},
    listening    |-> FALSE,
    count        |-> [n |-> 0, unit |-> "(markup)"],
    grid         |-> <<>>,
    phoneName    |-> Markup,
    phoneSub     |-> Markup,
    pills        |-> <<>>,
    foundHidden  |-> FALSE,
    notfoundHidden |-> TRUE,
    select1      |-> "",
    select2      |-> "",
    options      |-> {""},
    selectListening |-> FALSE,
    compareDisabled |-> FALSE,
    builderErrorDisplay |-> "none",
    builderErrorText |-> "",
    validated    |-> FALSE ]

NoRun ==
  [ mod |-> 0, selectedIds |-> <<>>, phones |-> NoDoc, failed |-> FALSE,
    outcome |-> "none", selectedPhones |-> <<>>, again |-> FALSE ]

InitialConsole == [fetch |-> 0, table |-> 0, boot |-> 0, uncaught |-> 0, populate |-> 0]

NoFlatten == [value |-> Undefined, out |-> <<>>, done |-> TRUE]

IdleBoot == [pc |-> "idle", tried |-> <<>>, items |-> NoDoc, from |-> 0, events |-> 0]

\* ----------------------------------------------------------- SEO hardening
\* setRobotsMeta: noindex for a dynamic page with query parameters
setRobotsMeta(d) ==
  IF hasQueryParams(loc) /\ ~isProgrammaticPage(attr)
    THEN [d EXCEPT !.robots = "noindex, follow"]
    ELSE d

\* setCanonicalUrl: origin + pathname, without the query string
setCanonicalUrl(d) == [d EXCEPT !.canonical = "origin/pathname"]

\* updatePageMeta: title, meta description and heading name the models
updatePageMeta(d, selectedPhones) ==
  IF Len(selectedPhones) = 0 THEN d
  ELSE [d EXCEPT
         !.title = IF Has("title")
                     THEN Models(selectedPhones) \o <<" - Specs Comparison - SpecLedger">>
                     ELSE @,
         !.description = IF Has("description")
                     THEN <<"Compare ">> \o Models(selectedPhones) \o <<" side-by-side ...">>
                     ELSE @,
         !.heading = IF Has("page-title") THEN Models(selectedPhones) ELSE @]

\* variant: a tag is appended on every render
addStructuredDataEveryTime(d, selectedPhones) ==
  IF Len(selectedPhones) = 0 THEN d
  ELSE [d EXCEPT !.jsonld =
         Append(@, [product |-> TRUE, name |-> Models(selectedPhones), url |-> loc])]

\* addStructuredData: one script[data-product-schema] tag, created only when
\* the document holds none
addStructuredData(d, selectedPhones) ==
  IF Len(selectedPhones) = 0 THEN d
  ELSE IF \E i \in 1..Len(d.jsonld) : d.jsonld[i].product
    THEN d
    ELSE [d EXCEPT !.jsonld =
           Append(@, [product |-> TRUE, name |-> Models(selectedPhones), url |-> loc])]

\* ------------------------------------- generateComparisonTable, after await
\* variant: an all-unknown selection is treated like an empty one
OutcomeUnknownAsNeutral(selectedIds, phones) ==
  IF Len(selectedIds) = 0 THEN "neutral"
  ELSE IF phones.kind # "array" THEN "error"
  ELSE IF Len(SelectedPhones(selectedIds, phones.recs)) = 0 THEN "neutral"
  ELSE "table"

\* variant: the empty selection is reported like an unresolved one
OutcomeEmptyAsNoMatch(selectedIds, phones) ==
  IF phones.kind # "array" THEN "error"
  ELSE IF Len(SelectedPhones(selectedIds, phones.recs)) = 0 THEN "nomatch"
  ELSE "table"

\* Which path the body takes: the neutral placeholder for no identifiers,
\* the catch block when phones.find throws (phones is not an array), the
\* zero-match error, or the rendered table.
Outcome(selectedIds, phones) ==
  IF Len(selectedIds) = 0 THEN "neutral"
  ELSE IF phones.kind # "array" THEN "error"
  ELSE IF Len(SelectedPhones(selectedIds, phones.recs)) = 0 THEN "nomatch"
  ELSE "table"

\* variant: the success path leaves the error message as it was
RenderTableKeepingError(d, mod, selectedPhones) ==
  LET d1 == updatePageMeta(d, selectedPhones)
      d2 == IF mod # 2 THEN addStructuredData(d1, selectedPhones) ELSE d1
  IN  [d2 EXCEPT
        !.tableHeader = HeaderRow(selectedPhones),
        !.tableBody = Append(SpecRows(selectedPhones), SourceRow(selectedPhones)),
        !.errorDisplay = @]

\* The success path: page meta, structured data (not in the second module of
\* site.js, which has no addStructuredData), header row, spec rows, Source
\* row, and the error message hidden.
RenderTable(d, mod, selectedPhones) ==
  LET d1 == updatePageMeta(d, selectedPhones)
      d2 == IF mod # 2 THEN addStructuredData(d1, selectedPhones) ELSE d1
  IN  [d2 EXCEPT
        !.tableHeader = HeaderRow(selectedPhones),
        !.tableBody = Append(SpecRows(selectedPhones), SourceRow(selectedPhones)),
        !.errorDisplay = "none"]

\* The document after the call resumes with the fetched value `phones`.
Rendered(d, mod, selectedIds, phones) ==
  LET out == Outcome(selectedIds, phones)
  IN  CASE out = "neutral" -> [d EXCEPT !.tableBody = <<NeutralRow>>]
        [] out = "error" ->
             [d EXCEPT !.errorText = LoadErrorMessage,
                       !.errorDisplay = "block",
                       !.tableBody = <<ErrorRow>>]
        [] out = "nomatch" ->
             [d EXCEPT !.errorText = NoValidIdsMessage,
                       !.errorDisplay = "block",
                       !.tableBody = <<NoMatchRow>>]
        [] OTHER -> RenderTable(d, mod, SelectedPhones(selectedIds, phones.recs))

\* An exception escapes a function (an unhandled rejection of its promise)
\* when it is thrown outside the function's try block.
Escapes(thrown, inTry) == thrown /\ ~inTry

\* console.error calls of one completed call: the one of fetchPhonesData and
\* the one of the catch block, which encloses the whole body after the await
Logged(c, f, out) ==
  [c EXCEPT !.fetch = IF f.logged THEN @ + 1 ELSE @,
            !.table = IF out = "error" THEN @ + 1 ELSE @,
            !.uncaught = IF Escapes(out = "error", TRUE) THEN @ + 1 ELSE @]

\* How one fetch of ../data/phones.json settles: with what the server holds,
\* or with a network error.
Settles == {server, Response("neterr", NoDoc)}

\* A generateComparisonTable call resumes: fetchPhonesData settles and the
\* rest of the body runs to its end.
TableDone(p, resp) ==
  /\ p \in pending
  /\ p.fn = "table"
  /\ LET f   == fetchPhonesData(resp)
         out == Outcome(p.ids, f.value)
     IN  /\ dom' = Rendered(dom, p.mod, p.ids, f.value)
         /\ console' = Logged(console, f, out)
         /\ run' = [ mod |-> p.mod, selectedIds |-> p.ids, phones |-> f.value,
                     failed |-> f.logged, outcome |-> out,
                     selectedPhones |->
                       IF out = "table" THEN SelectedPhones(p.ids, f.value.recs) ELSE <<>>,
                     again |->
                       /\ out = "table"
                       /\ run.outcome = "table"
                       /\ run.selectedPhones = SelectedPhones(p.ids, f.value.recs) ]
  /\ pending' = pending \ {p}
  /\ UNCHANGED <<page, loc, attr, server, phase, boot, fv>>

\* ------------------------------------------------------- displayPhonesList
PhonesListOf(phones) ==
  IF phones.kind # "array" THEN [kind |-> "error", items |-> <<>>]
  ELSE IF Len(phones.recs) = 0 THEN [kind |-> "empty", items |-> <<>>]
  ELSE [ kind |-> "list",
         items |-> [i \in 1..Len(phones.recs) |->
                      << String(Get(phones.recs[i], "brand")), " ",
                         String(Get(phones.recs[i], "model")), " (ID: ",
                         String(Get(phones.recs[i], "id")), ")" >>] ]

ListDone(p, resp) ==
  /\ p \in pending
  /\ p.fn = "list"
  /\ LET f == fetchPhonesData(resp)
     IN  /\ dom' = [dom EXCEPT !.phonesList = PhonesListOf(f.value)]
         /\ console' = [console EXCEPT !.fetch = IF f.logged THEN @ + 1 ELSE @]
  /\ pending' = pending \ {p}
  /\ UNCHANGED <<page, loc, attr, server, phase, run, boot, fv>>

\* -------------------------------------------------------------------- init
Call(fn, mod, ids) == [fn |-> fn, mod |-> mod, ids |-> ids, n |-> 0]

\* the calls one module's init leaves suspended at their fetch
InitCalls(mod) ==
  IF ~Has("comparison-table") THEN {}
  ELSE (IF Has("header-row") /\ Has("table-body")
          THEN {Call("table", mod, getComparisonIds(loc, attr))} ELSE {})
       \cup (IF Has("phones-list") THEN {Call("list", mod, <<>>)} ELSE {})

\* DOMContentLoaded on a page that loads site.js: init of the first module
\* (SEO hardening, then the table and the list), then init of the second.
SiteReady ==
  /\ page \in {"dynamic", "static", "plain"}
  /\ phase = "loading"
  /\ phase' = "ready"
  /\ dom' = setCanonicalUrl(setRobotsMeta(dom))
  /\ pending' = InitCalls(1) \cup InitCalls(2)
  /\ UNCHANGED <<page, loc, attr, server, console, run, boot, fv>>

\* -------------------------------------------------------------- loadPhones
\* the candidate paths, in the order of the array `paths`
NumPaths == 4

\* the documents the candidate paths may serve
BootDatasets == {<<>>, <<PhoneA>>, <<PhoneB, PhoneA2>>, <<PhoneZ, PhoneNoId, PhoneA2>>}

BootResponses ==
  Failures
    \cup {Response("ok", Doc("array", D)) : D \in BootDatasets}
    \cup {Response("ok", Doc("wrapped", D)) : D \in BootDatasets}
    \cup {Response("ok", Doc("nokey", <<>>)), Response("ok", Doc("scalar", <<>>))}

\* variant: an empty items array counts as missing
TakesNonEmptyOnly(resp) ==
  /\ resp.status = "ok"
  /\ \/ resp.doc.kind = "scalar"
     \/ (resp.doc.kind = "wrapped" /\ Len(resp.doc.recs) > 0)

\* variant: a bare array is accepted as well
TakesAlsoBareArray(resp) ==
  resp.status = "ok" /\ resp.doc.kind \in {"wrapped", "scalar", "array"}

\* `if (data?.items)`: fetchJSON did not throw and data.items is truthy (an
\* array, even an empty one, or any other truthy value)
Takes(resp) == resp.status = "ok" /\ resp.doc.kind \in {"wrapped", "scalar"}

\* data.items of a taken response
ItemsOf(resp) ==
  IF resp.doc.kind = "wrapped" THEN Doc("array", resp.doc.recs) ELSE Doc("number", <<>>)

\* ------------------------------------------- the index page: renderCompare
\* The characters of the strings the text filter reads.
Spell(s) ==
  CASE s = "Acme" -> <<"A", "c", "m", "e">>
    [] s = "Bolt" -> <<"B", "o", "l", "t">>
    [] s = "X1" -> <<"X", "1">>
    [] s = "X1 Pro" -> <<"X", "1", " ", "P", "r", "o">>
    [] s = "B2" -> <<"B", "2">>
    [] s = "Z1" -> <<"Z", "1">>
    [] s = "Ghost" -> <<"G", "h", "o", "s", "t">>
    [] s = "a" -> <<"a">>
    [] s = "b" -> <<"b">>
    [] s = "undefined" -> <<"u", "n", "d", "e", "f", "i", "n", "e", "d">>
    [] s = "null" -> <<"n", "u", "l", "l">>
    [] OTHER -> <<>>

\* String.prototype.toLowerCase, character by character
Lower(c) ==
  CASE c = "A" -> "a" [] c = "B" -> "b" [] c = "G" -> "g" [] c = "P" -> "p"
    [] c = "U" -> "u" [] c = "X" -> "x" [] c = "Z" -> "z" [] OTHER -> c

\* text(v): (v ?? "").toString().toLowerCase() of a string
text(cs) == [n \in 1..Len(cs) |-> Lower(cs[n])]

\* String.prototype.includes
Includes(hay, needle) ==
  \E n \in 0..(Len(hay) - Len(needle)) : SubSeq(hay, n + 1, n + Len(needle)) = needle

\* the template literal `${i.brand} ${i.model} ${i.id} ${i?.chipset?.name}`
Haystack(i) ==
  Spell(String(Get(i, "brand"))) \o <<" ">> \o Spell(String(Get(i, "model")))
    \o <<" ">> \o Spell(String(Get(i, "id")))
    \o <<" ">> \o Spell(String(Prop(Get(i, "chipset"), "name")))

\* variant: the empty query matches no record
MatchesNothingWhenEmpty(i, brandValue, qValue) ==
  IF brandValue # "" /\ Get(i, "brand") # Str(brandValue) THEN FALSE
  ELSE Len(text(qValue)) > 0 /\ Includes(text(Haystack(i)), text(qValue))

\* matches(i) for the control values brand.value and q.value
matches(i, brandValue, qValue) ==
  IF brandValue # "" /\ Get(i, "brand") # Str(brandValue) THEN FALSE
  ELSE IF Len(text(qValue)) = 0 THEN TRUE
  ELSE Includes(text(Haystack(i)), text(qValue))

\* items.filter(matches)
Filtered(items, brandValue, qValue) ==
  SelectSeq(items, LAMBDA i : matches(i, brandValue, qValue))

\* uniq(items.map(i => i.brand)): the values of the brand options (their
\* order, the sort, plays no part in what brand.value can be)
Brands(items) ==
  {String(Get(items[n], "brand")) : n \in {m \in 1..Len(items) : Truthy(Get(items[m], "brand"))}}

\* card(i): the link, the heading, the badge and the chipset line
Card(i) ==
  [ href    |-> [path |-> "./phone.html?id=", id |-> String(Get(i, "id"))],
    name    |-> <<String(Get(i, "brand")), " ", String(Get(i, "model"))>>,
    badge   |-> String(Get(i, "brand")),
    chipset |-> IF Prop(Get(i, "chipset"), "name").t \in {"undefined", "null"}
                  THEN DASH ELSE String(Prop(Get(i, "chipset"), "name")) ]

\* el() appends a child that is neither a string nor a node: appendChild
\* throws a TypeError (the badge [i.brand], the chipset line)
CardThrows(i) ==
  \/ Get(i, "brand").t # "str"
  \/ Prop(Get(i, "chipset"), "name").t \notin {"str", "undefined", "null"}

\* the cards appended before card() throws: all of them when none throws
CardsBeforeThrow(filtered) ==
  LET bad  == {n \in 1..Len(filtered) : CardThrows(filtered[n])}
      stop == IF bad = {} THEN Len(filtered) + 1
              ELSE CHOOSE n \in bad : \A m \in bad : n <= m
  IN  [n \in 1..(stop - 1) |-> Card(filtered[n])]

RepaintThrows(d, items) ==
  \E n \in 1..Len(Filtered(items, d.brand, d.q)) :
    CardThrows(Filtered(items, d.brand, d.q)[n])

\* repaint(): the count label, the grid emptied, one card per filtered record
repaint(d, items) ==
  LET filtered == Filtered(items, d.brand, d.q)
  IN  [d EXCEPT !.count = [n |-> Len(filtered), unit |-> " phones"],
                !.grid = CardsBeforeThrow(filtered)]

\* renderCompare(items): the brand options (the selector falls back to
\* "All brands"), the two listeners, then the initial paint
renderCompare(d, items) ==
  repaint([d EXCEPT !.brandOptions = Brands(items), !.brand = "",
                    !.listening = TRUE, !.view = "index"], items)

\* ------------------------------------------- the detail page: renderPhone
\* formatDate(iso): the dash for a falsy value, else the date as the
\* locale prints it
formatDate(iso) == IF ~Truthy(iso) THEN <<DASH>> ELSE <<"toLocaleDateString(", String(iso), ")">>

\* the pills: os, chipset, display type and waterproof rating, those truthy
Pills(item) ==
  LET all == << Prop(Get(item, "os"), "name"), Prop(Get(item, "chipset"), "name"),
                Prop(Get(item, "display"), "type"), Prop(Get(item, "waterproof"), "rating") >>
      kept == SelectSeq(all, Truthy)
  IN  [n \in 1..Len(kept) |-> String(kept[n])]

\* el() is handed a truthy child that is not a string (a pill, a <dd>)
RenderPhoneThrows(item) ==
  \/ \E k \in {"brand", "model"} : Get(item, k).t \notin {"str", "undefined", "null"}
  \/ \E n \in 1..Len(SelectSeq(<<Prop(Get(item, "os"), "name"), Prop(Get(item, "chipset"), "name")>>, Truthy)) :
        SelectSeq(<<Prop(Get(item, "os"), "name"), Prop(Get(item, "chipset"), "name")>>, Truthy)[n].t # "str"

\* renderPhone(item): the name, the sub line with the id, the pills
renderPhone(d, item) ==
  [d EXCEPT !.phoneName = <<String(Get(item, "brand")), " ", String(Get(item, "model"))>>,
            !.phoneSub = <<"Release: ">> \o formatDate(Get(item, "release_date"))
                           \o <<" * ID: ", String(Get(item, "id"))>>,
            !.pills = Pills(item),
            !.view = "phone"]

\* index of the first record whose id is strictly equal to the value v,
\* 0 when find returns undefined
FindValue(items, v) ==
  IF \E n \in 1..Len(items) : Get(items[n], "id") = v
    THEN CHOOSE n \in 1..Len(items) :
           Get(items[n], "id") = v /\ \A m \in 1..(n - 1) : Get(items[m], "id") # v
    ELSE 0

\* variant: the last record carrying the id is taken
ItemForLast(items, l) ==
  LET v == IF l.id = "" THEN Null ELSE Str(l.id)
  IN  IF \E n \in 1..Len(items) : Get(items[n], "id") = v
        THEN CHOOSE n \in 1..Len(items) :
               Get(items[n], "id") = v /\ \A m \in (n + 1)..Len(items) : Get(items[m], "id") # v
        ELSE 0

\* items.find(i => i.id === id), id = URLSearchParams.get("id"): null when
\* the URL has no id parameter (l.id = "")
ItemFor(items, l) == FindValue(items, IF l.id = "" THEN Null ELSE Str(l.id))

\* The body of the handler once loadPhones has returned `items`:
\* renderCompare on the index page; on the detail page the record whose id
\* is the id parameter, or the not-found block.  A TypeError (items.map,
\* items.find on a non-array) is thrown to the catch block.
Booted(d, items) ==
  IF page = "index"
    THEN IF items.kind = "array" THEN renderCompare(d, items.recs) ELSE d
    ELSE IF items.kind # "array" THEN d
         ELSE IF ItemFor(items.recs, loc) = 0
                THEN [d EXCEPT !.notfoundHidden = FALSE, !.foundHidden = TRUE,
                               !.view = "notfound"]
                ELSE renderPhone(d, items.recs[ItemFor(items.recs, loc)])

\* the handler body throws: items is no array, or a card or a detail block
\* is handed a child that is no string
BootThrows(d, items) ==
  \/ items.kind # "array"
  \/ page = "index" /\ RepaintThrows([d EXCEPT !.brand = ""], items.recs)
  \/ /\ page = "phone"
     /\ ItemFor(items.recs, loc) # 0
     /\ RenderPhoneThrows(items.recs[ItemFor(items.recs, loc)])

\* the catch block: console.error, and the load-error element shown
BootFailed(d) ==
  IF Has("load-error")
    THEN [d EXCEPT !.loadErrorHidden = FALSE,
                   !.loadErrorText = "Failed to load data. Ensure data/phones.json exists."]
    ELSE d

\* DOMContentLoaded on a page that loads the boot script: loadPhones starts
\* and suspends at the fetch of the first candidate.
BootReady ==
  /\ page \in {"index", "phone"}
  /\ phase = "loading"
  /\ phase' = "ready"
  /\ boot' = [boot EXCEPT !.pc = "fetching"]
  /\ UNCHANGED <<page, loc, attr, server, pending, dom, console, run, fv>>

\* The fetch of candidate Len(tried)+1 settles with resp.  A taken response
\* ends loadPhones and the handler body runs; a skipped one moves to the next
\* candidate, and after the last candidate loadPhones throws.
LoadStep(resp) ==
  /\ boot.pc = "fetching"
  /\ Len(boot.tried) < NumPaths
  /\ LET tried == Append(boot.tried, resp)
     IN  IF Takes(resp)
           THEN LET items == ItemsOf(resp)
                    threw == BootThrows(dom, items)
                IN  /\ boot' = [boot EXCEPT !.pc = "done", !.tried = tried,
                                            !.items = items, !.from = Len(tried)]
                    /\ dom' = IF threw THEN BootFailed(Booted(dom, items))
                                       ELSE Booted(dom, items)
                    /\ console' = [console EXCEPT
                                     !.boot = IF threw THEN @ + 1 ELSE @,
                                     !.uncaught = IF Escapes(threw, TRUE) THEN @ + 1 ELSE @]
           ELSE IF Len(tried) = NumPaths
             THEN /\ boot' = [boot EXCEPT !.pc = "failed", !.tried = tried]
                  /\ dom' = BootFailed(dom)
                  /\ console' = [console EXCEPT !.boot = @ + 1]
             ELSE /\ boot' = [boot EXCEPT !.tried = tried]
                  /\ UNCHANGED <<dom, console>>
  /\ UNCHANGED <<page, loc, attr, server, phase, pending, run, fv>>

\* --------------------------------------------- the index page's controls
\* what a visitor types into the text filter
Queries ==
  { <<>>, <<"z", "1">>, <<"B">>, <<"u", "n", "d">>, <<"x", "1", " ", "a">>, <<"q">> }

\* An input event on #q: the listener repaint runs with the new value; an
\* exception of card() is not caught by anything.
InputQuery(qValue) ==
  /\ page = "index"
  /\ dom.listening
  /\ boot.events < MaxEvents
  /\ LET d == [dom EXCEPT !.q = qValue]
     IN  /\ dom' = repaint(d, boot.items.recs)
         /\ console' = [console EXCEPT !.uncaught =
                          IF RepaintThrows(d, boot.items.recs) THEN @ + 1 ELSE @]
  /\ boot' = [boot EXCEPT !.events = @ + 1]
  /\ UNCHANGED <<page, loc, attr, server, phase, pending, run, fv>>

\* A change event on #brand: one of its options is selected, repaint runs.
ChangeBrand(brandValue) ==
  /\ page = "index"
  /\ dom.listening
  /\ boot.events < MaxEvents
  /\ brandValue \in dom.brandOptions \cup {""}
  /\ LET d == [dom EXCEPT !.brand = brandValue]
     IN  /\ dom' = repaint(d, boot.items.recs)
         /\ console' = [console EXCEPT !.uncaught =
                          IF RepaintThrows(d, boot.items.recs) THEN @ + 1 ELSE @]
  /\ boot' = [boot EXCEPT !.events = @ + 1]
  /\ UNCHANGED <<page, loc, attr, server, phase, pending, run, fv>>

\* ------------------------------------------------------------ the machine
\* the documents ../data/phones.json may hold
SiteResponses ==
  Failures
    \cup {Response("ok", Doc("array", D)) : D \in Datasets}
    \cup {Response("ok", doc) : doc \in ObjectDocs(<<PhoneA>>)}

\* locations of a page with a data-ids element
StaticLocations == {NoLocation, [query |-> TRUE, ids |-> <<Piece("b")>>]}

WithId(l, id) == [query |-> l.query, ids |-> l.ids, id |-> id, depth |-> 0]

Init ==
  /\ page \in {"dynamic", "static", "plain", "index", "phone"}
  /\ \/ /\ page = "dynamic"
        /\ loc \in {WithId(l, "") : l \in Locations}
        /\ attr = NoAttr
        /\ server \in SiteResponses
     \/ /\ page = "static"
        /\ \/ /\ loc = WithId(NoLocation, "")
              /\ attr \in {[present |-> TRUE, raw |-> raw] : raw \in RawLists}
           \/ /\ loc \in {WithId(l, "") : l \in StaticLocations}
              /\ attr \in {[present |-> TRUE, raw |-> raw] : raw \in {EmptyText, <<Piece("a")>>}}
        /\ server \in SiteResponses
     \/ /\ page = "plain"
        /\ loc \in {WithId(l, "") : l \in StaticLocations}
        /\ attr = NoAttr
        /\ server \in Failures
     \/ /\ page = "index"
        /\ loc = WithId(NoLocation, "")
        /\ attr = NoAttr
        /\ server \in {Response("neterr", NoDoc)}
     \/ /\ page = "phone"
        /\ loc \in {WithId(NoLocation, "")}
                     \cup {WithId([query |-> TRUE, ids |-> <<>>], id) : id \in {"a", "b", "x"}}
        /\ attr = NoAttr
        /\ server \in {Response("neterr", NoDoc)}
  /\ phase = "loading"
  /\ pending = {}
  /\ dom = InitialDom
  /\ console = InitialConsole
  /\ run = NoRun
  /\ boot = IdleBoot
  /\ fv = NoFlatten

Next ==
  \/ SiteReady
  \/ \E p \in pending, resp \in Settles : TableDone(p, resp)
  \/ \E p \in pending, resp \in Settles : ListDone(p, resp)
  \/ BootReady
  \/ \E resp \in BootResponses : LoadStep(resp)
  \/ \E qValue \in Queries : InputQuery(qValue)
  \/ \E brandValue \in {"", "Acme", "Bolt"} : ChangeBrand(brandValue)

Spec == Init /\ [][Next]_vars

\* ---------------------------------------------- flattenValue on its own
LeafKinds ==
  { Prim("str", "6.1"), Prim("str", ""), Prim("null", "null"),
    Prim("num", "0"), Prim("num", "120") }

FlattenValues ==
  {Str("OLED"), Str(""), Num("0"), Null, Undefined}
    \cup {Obj(ls) : ls \in UNION {[1..n -> LeafKinds] : n \in 0..MaxLeaves}}

Flatten ==
  /\ ~fv.done
  /\ fv' = [fv EXCEPT !.out = flattenValue(fv.value), !.done = TRUE]
  /\ UNCHANGED <<page, loc, attr, server, phase, pending, dom, console, run, boot>>

InitFlatten ==
  /\ page = "plain"
  /\ loc = WithId(NoLocation, "")
  /\ attr = NoAttr
  /\ server = Response("neterr", NoDoc)
  /\ phase = "ready"
  /\ pending = {}
  /\ dom = InitialDom
  /\ console = InitialConsole
  /\ run = NoRun
  /\ boot = IdleBoot
  /\ fv \in {[value |-> v, out |-> <<>>, done |-> FALSE] : v \in FlattenValues}

NextFlatten == Flatten

SpecFlatten == InitFlatten /\ [][NextFlatten]_vars

\* ------------------------- the comparison builder (src/unnamed/part_001)
\* phone-compare.html with the later version of the script: one module
\* (mod 3) whose shared functions are those of the first module of site.js.
DifferentPhonesMessage == "Please select different phones to compare."

BothPhonesMessage == "Please select both phones."

NoPhonesMessage == "No phones available in database."

OptionsErrorMessage == "Error loading phone options."

\* variant: equal values leave the button enabled
ValidateIgnoringEqual(d) ==
  IF ~(Has("phone-select-1") /\ Has("phone-select-2") /\ Has("compare-btn")) THEN d
  ELSE LET hidden == [d EXCEPT !.builderErrorDisplay = "none", !.validated = TRUE]
       IN  IF d.select1 # "" /\ d.select2 # ""
             THEN [hidden EXCEPT !.compareDisabled = FALSE]
             ELSE [hidden EXCEPT !.compareDisabled = TRUE]

\* validatePhoneSelection: the message hidden; the button enabled only for
\* two different non-empty values; the message shown for two equal ones
validatePhoneSelection(d) ==
  IF ~(Has("phone-select-1") /\ Has("phone-select-2") /\ Has("compare-btn")) THEN d
  ELSE LET hidden == [d EXCEPT !.builderErrorDisplay = "none", !.validated = TRUE]
       IN  IF d.select1 # "" /\ d.select2 # ""
             THEN IF d.select1 = d.select2
                    THEN [hidden EXCEPT !.compareDisabled = TRUE,
                                        !.builderErrorText = DifferentPhonesMessage,
                                        !.builderErrorDisplay = "block"]
                    ELSE [hidden EXCEPT !.compareDisabled = FALSE]
             ELSE [hidden EXCEPT !.compareDisabled = TRUE]

\* select.value = v: the option with that value is selected; with no such
\* option none is, and the value reads as the empty string
SelectValue(options, v) == IF v \in options THEN v ELSE ""

\* populateComparisonDropdowns on a non-empty record array: the options of
\* both dropdowns, the change listeners, the pre-selection from the current
\* URL, then validatePhoneSelection
Populated(d, phones) ==
  LET options == {""} \cup {String(Get(phones[n], "id")) : n \in 1..Len(phones)}
      ids     == getComparisonIds(loc, attr)
      d1      == [d EXCEPT !.options = options, !.select1 = "", !.select2 = "",
                           !.selectListening = TRUE]
      d2      == IF Len(ids) >= 2
                   THEN [d1 EXCEPT !.select1 = SelectValue(options, ids[1]),
                                   !.select2 = SelectValue(options, ids[2])]
                   ELSE d1
  IN  validatePhoneSelection(d2)

\* A populateComparisonDropdowns call resumes with the fetched value: the
\* empty array shows "No phones available", a value that is no array throws
\* at phones.map into the catch block, else the dropdowns are filled.
PopulateDone(p, resp) ==
  /\ p \in pending
  /\ p.fn = "populate"
  /\ LET f == fetchPhonesData(resp)
     IN  /\ dom' = IF f.value.kind # "array"
                     THEN [dom EXCEPT !.builderErrorText = OptionsErrorMessage,
                                      !.builderErrorDisplay = "block"]
                   ELSE IF Len(f.value.recs) = 0
                     THEN [dom EXCEPT !.builderErrorText = NoPhonesMessage,
                                      !.builderErrorDisplay = "block"]
                   ELSE Populated(dom, f.value.recs)
         /\ console' = [console EXCEPT
                          !.fetch = IF f.logged THEN @ + 1 ELSE @,
                          !.populate = IF f.value.kind # "array" THEN @ + 1 ELSE @]
  /\ pending' = pending \ {p}
  /\ UNCHANGED <<page, loc, attr, server, phase, run, boot, fv>>

\* A change event on one of the dropdowns (the listeners exist once the
\* dropdowns are filled): the visitor picks an option, validatePhoneSelection
\* runs.
ChangeSelect(which, value) ==
  /\ page = "builder"
  /\ dom.selectListening
  /\ value \in dom.options
  /\ dom' = validatePhoneSelection(
              IF which = 1 THEN [dom EXCEPT !.select1 = value]
                           ELSE [dom EXCEPT !.select2 = value])
  /\ UNCHANGED <<page, loc, attr, server, phase, pending, console, run, boot, fv>>

\* an identifier holding a character that is special in a query string
PlusId == "s+"

\* a record of the builder's dataset with such an identifier
PhonePlus ==
  << [k |-> "id", v |-> Str(PlusId)],
     [k |-> "brand", v |-> Str("Star")],
     [k |-> "model", v |-> Str("S1")] >>

\* What URLSearchParams.get yields for a value that was written into the
\* query string as it is (the template literal does not encode it): a '+'
\* reads back as a space, so "s+" is the piece "s " that trim() makes "s";
\* an identifier of unreserved characters reads back unchanged.
Decoded(val) == IF val = PlusId THEN Padded("s") ELSE Piece(val)

\* history.pushState(.., '', `?ids=${val1},${val2}`): the location as the
\* script reads it afterwards
PushState(l, val1, val2) ==
  [l EXCEPT !.query = TRUE, !.ids = <<Decoded(val1), Decoded(val2)>>, !.depth = @ + 1]

\* A click on the compare button (a disabled button fires none): the
\* handler of handleComparisonBuilder validates the two values, pushes the
\* new URL and calls generateComparisonTable, which reads the selection and
\* suspends at its fetch.
Click ==
  /\ page = "builder"
  /\ phase = "ready"
  /\ ~dom.compareDisabled
  /\ loc.depth < MaxClicks
  /\ IF dom.select1 = "" \/ dom.select2 = ""
       THEN /\ dom' = [dom EXCEPT !.builderErrorText = BothPhonesMessage,
                                  !.builderErrorDisplay = "block"]
            /\ UNCHANGED <<loc, pending>>
     ELSE IF dom.select1 = dom.select2
       THEN /\ dom' = [dom EXCEPT !.builderErrorText = DifferentPhonesMessage,
                                  !.builderErrorDisplay = "block"]
            /\ UNCHANGED <<loc, pending>>
     ELSE /\ dom' = [dom EXCEPT !.builderErrorDisplay = "none"]
          /\ loc' = PushState(loc, dom.select1, dom.select2)
          /\ pending' = pending \cup
               {[Call("table", 3, getComparisonIds(loc', attr)) EXCEPT !.n = loc'.depth]}
  /\ UNCHANGED <<page, attr, server, phase, console, run, boot, fv>>

\* init of the builder script on phone-compare.html: SEO hardening, the
\* phone list and the dropdowns start their fetches, the click handler is
\* installed, and the table is generated only for two or more identifiers.
BuilderReady ==
  /\ page = "builder"
  /\ phase = "loading"
  /\ phase' = "ready"
  /\ dom' = setCanonicalUrl(setRobotsMeta(dom))
  /\ pending' =
       {Call("list", 3, <<>>), Call("populate", 3, <<>>)}
         \cup (IF Len(getComparisonIds(loc, attr)) >= 2
                 THEN {Call("table", 3, getComparisonIds(loc, attr))} ELSE {})
  /\ UNCHANGED <<page, loc, attr, server, console, run, boot, fv>>

\* the URLs phone-compare.html is opened with
BuilderLocations ==
  { NoLocation,
    [query |-> TRUE, ids |-> <<Piece("a"), Piece("b")>>],
    [query |-> TRUE, ids |-> <<Piece("a"), Piece("a")>>],
    [query |-> TRUE, ids |-> <<Piece("b")>>] }

\* what ../data/phones.json holds when the builder page is opened
BuilderResponses ==
  { Response("ok", Doc("array", <<PhoneA, PhoneB>>)),
    Response("ok", Doc("array", <<>>)),
    Response("ok", Doc("wrapped", <<PhoneA>>)),
    Response("notok", NoDoc) }

\* a dataset one of whose identifiers needs encoding in a URL
PlusResponse == Response("ok", Doc("array", <<PhoneA, PhonePlus>>))

InitBuilder ==
  /\ page = "builder"
  /\ \/ /\ loc \in {WithId(l, "") : l \in BuilderLocations}
        /\ server \in BuilderResponses
     \/ /\ loc = WithId(NoLocation, "")
        /\ server = PlusResponse
  /\ attr = NoAttr
  /\ phase = "loading"
  /\ pending = {}
  /\ dom \in {[InitialDom EXCEPT !.compareDisabled = b] : b \in BOOLEAN}
  /\ console = InitialConsole
  /\ run = NoRun
  /\ boot = IdleBoot
  /\ fv = NoFlatten

NextBuilder ==
  \/ BuilderReady
  \/ \E p \in pending, resp \in Settles : PopulateDone(p, resp)
  \/ \E p \in pending, resp \in Settles : TableDone(p, resp)
  \/ \E p \in pending, resp \in Settles : ListDone(p, resp)
  \/ \E which \in {1, 2}, value \in {"", "a", "b", PlusId} : ChangeSelect(which, value)
  \/ Click

SpecBuilder == InitBuilder /\ [][NextBuilder]_vars

\* ------------------------------------------------------------ properties
\* dataset D holds a record whose id is the string id
HasRecord(D, id) == \E j \in 1..Len(D) : Get(D[j], "id") = Str(id)

\* no two records of D carry the same id
UniqueIds(D) ==
  \A i, j \in 1..Len(D) :
    (i # j /\ Get(D[i], "id").t # "undefined") => Get(D[i], "id") # Get(D[j], "id")

\* the identifiers of L that some record of D carries, in the order of L
Matched(L, D) == SelectSeq(L, LAMBDA id : HasRecord(D, id))

\* C1: the resolved list of a generateComparisonTable call is, in the order
\* of the requested list L, the record of D carrying each identifier of L
\* (the first such record); identifiers without a record are omitted, and
\* when ids are unique the resolved records are exactly the records of D
\* whose id is requested.
ResolvedInRequestedOrder ==
  run.outcome \in {"table", "nomatch"} =>
    LET L == run.selectedIds
        D == run.phones.recs
        R == run.selectedPhones
    IN  /\ Len(R) = Len(Matched(L, D))
        /\ \A n \in 1..Len(R) :
             \E j \in 1..Len(D) :
               /\ R[n] = D[j]
               /\ Get(D[j], "id") = Str(Matched(L, D)[n])
               /\ \A h \in 1..(j-1) : Get(D[h], "id") # Get(D[j], "id")
        /\ UniqueIds(D) =>
             {R[n] : n \in 1..Len(R)} =
               {D[j] : j \in {h \in 1..Len(D) :
                                \E i \in 1..Len(L) : Get(D[h], "id") = Str(L[i])}}

ResolvedAgainstDatasetOrder ==
  /\ run.outcome = "table"
  /\ run.selectedIds = <<"b", "a">>
  /\ run.phones.recs = <<PhoneA, PhoneB>>
  /\ run.selectedPhones = <<PhoneB, PhoneA>>

\* C2: a call with a non-empty identifier list none of which matches a record
\* of the dataset ends on the zero-match path: the message "No valid phone
\* IDs found..." is visible, the body is the no-match row, not the neutral row.
ZeroMatchIsAnError ==
  ( /\ run.mod # 0
    /\ Len(run.selectedIds) > 0
    /\ run.phones.kind = "array"
    /\ \A i \in 1..Len(run.selectedIds) : ~HasRecord(run.phones.recs, run.selectedIds[i]) )
  => /\ dom.errorDisplay = "block"
     /\ dom.errorText = NoValidIdsMessage
     /\ dom.tableBody = <<NoMatchRow>>
     /\ dom.tableBody # <<NeutralRow>>

UnknownIdsAgainstLoadedDataset ==
  /\ run.mod # 0
  /\ run.selectedIds = <<"x", "b">>
  /\ ~run.failed
  /\ run.phones.recs = <<PhoneA>>
  /\ dom.errorDisplay = "block"
  /\ dom.tableBody = <<NoMatchRow>>

\* C3: a call with no identifiers ends with the neutral "Select phones to
\* compare" row as the body, a text other than the no-match row's, and the
\* step leaves the error message as it was: it is not made visible.
EmptySelectionIsNeutral ==
  [][ \A p \in pending :
        (p.fn = "table" /\ Len(p.ids) = 0 /\ pending' = pending \ {p})
        => /\ dom'.tableBody = <<NeutralRow>>
           /\ NeutralRow.label # NoMatchRow.label
           /\ dom'.errorDisplay = dom.errorDisplay
           /\ dom'.errorText = dom.errorText ]_vars

NeutralPlaceholderShown ==
  /\ run.mod # 0
  /\ Len(run.selectedIds) = 0
  /\ dom.tableBody = <<NeutralRow>>
  /\ dom.errorDisplay = "none"

\* C4: when at least one requested identifier matches a record, the table has
\* one data column per matched identifier (header and every row), unmatched
\* identifiers add no column, and the error message is hidden.
PartialMatchRendersTable ==
  ( /\ run.mod # 0
    /\ run.phones.kind = "array"
    /\ \E i \in 1..Len(run.selectedIds) : HasRecord(run.phones.recs, run.selectedIds[i]) )
  => LET n == Len(Matched(run.selectedIds, run.phones.recs))
     IN  /\ Len(dom.tableHeader) = n + 1
         /\ Len(dom.tableBody) >= 1
         /\ \A r \in 1..Len(dom.tableBody) : Len(dom.tableBody[r].cells) = n
         /\ dom.errorDisplay = "none"

OneOfTwoIdsMatched ==
  /\ run.selectedIds = <<"a", "b">>
  /\ run.phones = Doc("array", <<PhoneA>>)
  /\ Len(dom.tableHeader) = 2
  /\ dom.errorDisplay = "none"

\* C9: the spec rows of a rendered table (all rows but the final Source row)
\* are the canonical fields that are a key of at least one resolved record,
\* in canonical order, each with one cell per resolved record (the dash for
\* a record lacking the field); id, source_url and non-canonical keys give
\* no spec row.
SpecRowsAreCanonicalUnion ==
  run.outcome = "table" =>
    LET R        == run.selectedPhones
        body     == dom.tableBody
        rows     == SubSeq(body, 1, Len(body) - 1)
        expected == SelectSeq(specOrder,
                      LAMBDA s : \E c \in 1..Len(R) : s \in Keys(R[c]))
    IN  /\ Len(body) = Len(expected) + 1
        /\ body[Len(body)].label = "Source"
        /\ \A r \in 1..Len(rows) :
             /\ rows[r].label = specLabels[expected[r]]
             /\ Len(rows[r].cells) = Len(R)
             /\ \A c \in 1..Len(R) :
                  expected[r] \notin Keys(R[c]) => rows[r].cells[c] = <<DASH>>
        /\ \A r \in 1..Len(rows) :
             rows[r].label \notin {"id", "source_url", "memory", "Source"}

FieldOfOneRecordOnly ==
  /\ run.outcome = "table"
  /\ run.selectedPhones = <<PhoneA, PhoneB>>
  /\ \E r \in 1..Len(dom.tableBody) :
       /\ dom.tableBody[r].label = "RAM"
       /\ dom.tableBody[r].cells = << <<DASH>>, <<"12">> >>

\* the truthy leaves of an object value, in order
TruthyLeaves(value) == SelectSeq(value.leaves, Truthy)

\* C10 as stated: a nested object renders as its truthy leaves joined by
\* ' / ', and a null/undefined value or an object with no truthy leaf
\* renders as the dash.
FlattenDashesEveryEmptyValue ==
  fv.done =>
    IF fv.value.t \in {"null", "undefined"}
         \/ (fv.value.t = "obj" /\ Len(TruthyLeaves(fv.value)) = 0)
      THEN fv.out = <<DASH>>
      ELSE fv.value.t = "obj" =>
             /\ Len(fv.out) = 2 * Len(TruthyLeaves(fv.value)) - 1
             /\ \A i \in 1..Len(TruthyLeaves(fv.value)) :
                  fv.out[2 * i - 1] = TruthyLeaves(fv.value)[i].v

\* C10, amended: a nested object renders as its truthy leaves joined by
\* ' / ', which is the empty string when it has no truthy leaf; only a
\* null or undefined value renders as the dash.
FlattenJoinsTruthyLeaves ==
  fv.done =>
    LET kept == TruthyLeaves(fv.value)
    IN  /\ fv.value.t \in {"null", "undefined"} => fv.out = <<DASH>>
        /\ fv.value.t = "obj" =>
             /\ Len(fv.out) = IF Len(kept) = 0 THEN 0 ELSE 2 * Len(kept) - 1
             /\ \A i \in 1..Len(kept) : fv.out[2 * i - 1] = kept[i].v
             /\ \A i \in 1..(Len(kept) - 1) : fv.out[2 * i] = SEP
        /\ fv.value.t \in {"str", "num"} => fv.out = <<fv.value.v>>

FlattenedWithFalsyLeafDropped ==
  /\ fv.done
  /\ fv.value = Obj(<<Prim("str", "6.1"), Prim("null", "null"), Prim("num", "120")>>)
  /\ fv.out = <<"6.1", SEP, "120">>

\* candidate i of loadPhones answered with JSON holding an array of records,
\* as the array itself or under the key items
HoldsArray(i) ==
  boot.tried[i].status = "ok" /\ boot.tried[i].doc.kind \in {"array", "wrapped"}

\* candidate i answered with JSON whose items field is truthy
HoldsItems(i) ==
  boot.tried[i].status = "ok" /\ boot.tried[i].doc.kind \in {"wrapped", "scalar"}

\* C5 as stated: the loader returns the record array of the first candidate
\* whose response is a success and JSON holding an array of records, be it
\* the array itself or under a key; later candidates are not used.
FirstArrayCandidateWins ==
  /\ (boot.pc \in {"done", "failed"} /\ \E i \in 1..Len(boot.tried) : HoldsArray(i)) =>
       LET f == CHOOSE i \in 1..Len(boot.tried) :
                  HoldsArray(i) /\ \A h \in 1..(i-1) : ~HoldsArray(h)
       IN  /\ boot.pc = "done"
           /\ boot.from = f
           /\ Len(boot.tried) = f
           /\ boot.items = Doc("array", boot.tried[f].doc.recs)
  /\ (run.mod # 0 /\ ~run.failed /\ server.doc.kind \in {"array", "wrapped"}) =>
       run.phones = Doc("array", server.doc.recs)

\* C5, amended: loadPhones fetches its candidates in order, each at most
\* once, and returns the items value of the first candidate whose response
\* is a success and JSON with a truthy items field; a failed candidate, a
\* bare array and an object without items are skipped, and no candidate
\* after the taken one is fetched.  fetchPhonesData has one candidate and
\* returns its JSON as it is, or the empty array on failure.
FirstCandidateWithItemsWins ==
  /\ Len(boot.tried) <= NumPaths
  /\ boot.pc = "fetching" => \A i \in 1..Len(boot.tried) : ~HoldsItems(i)
  /\ boot.pc = "done" =>
       /\ boot.from = Len(boot.tried)
       /\ HoldsItems(boot.from)
       /\ \A i \in 1..(boot.from - 1) : ~HoldsItems(i)
       /\ boot.tried[boot.from].doc.kind = "wrapped" =>
            boot.items = Doc("array", boot.tried[boot.from].doc.recs)
  /\ boot.pc = "failed" =>
       /\ Len(boot.tried) = NumPaths
       /\ \A i \in 1..NumPaths : ~HoldsItems(i)
  /\ run.mod # 0 =>
       IF run.failed THEN run.phones = Doc("array", <<>>)
       ELSE server.status = "ok" /\ run.phones = server.doc

ThirdCandidateTaken ==
  /\ boot.pc = "done"
  /\ boot.from = 3
  /\ boot.tried[1].status = "notok"
  /\ boot.tried[2] = Response("ok", Doc("array", <<PhoneA>>))
  /\ boot.items = Doc("array", <<PhoneB, PhoneA2>>)

\* a comparison render found no dataset: its fetch failed, or the JSON it
\* got is not an array of records
RenderWithoutDataset == run.mod # 0 /\ (run.failed \/ run.phones.kind # "array")

ErrorMessageVisible == dom.errorDisplay = "block" /\ dom.errorText # ""

LoadErrorVisible == ~dom.loadErrorHidden /\ dom.loadErrorText # ""

\* C6: when every candidate dataset path has failed, a visible error message
\* is shown, and no candidate was fetched more than once.
NoDatasetShowsVisibleError ==
  /\ boot.pc = "failed" => (LoadErrorVisible /\ Len(boot.tried) = NumPaths)
  /\ RenderWithoutDataset => ErrorMessageVisible

\* C7 as stated: an empty loaded dataset makes the loader surface an error
\* to its caller, and nothing escapes unhandled.
EmptyDatasetSurfacesError ==
  /\ (boot.pc = "done" /\ boot.items = Doc("array", <<>>)) =>
       (console.boot > 0 /\ LoadErrorVisible /\ console.uncaught = 0)
  /\ (run.mod # 0 /\ ~run.failed /\ run.phones = Doc("array", <<>>)) =>
       (run.outcome = "error" /\ console.table > 0 /\ console.uncaught = 0)

\* C7, amended: an empty loaded dataset is returned to the caller as an
\* ordinary result; no error is raised or logged for it, the caller renders
\* its empty state, and nothing escapes unhandled.
EmptyDatasetIsReturned ==
  /\ ( /\ Len(boot.tried) > 0
       /\ boot.tried[Len(boot.tried)] = Response("ok", Doc("wrapped", <<>>)) )
     => /\ console.uncaught = 0
        /\ boot.pc = "done"
        /\ boot.items = Doc("array", <<>>)
        /\ console.boot = 0
        /\ dom.loadErrorHidden
        /\ dom.view \in {"index", "notfound"}
  /\ (run.mod # 0 /\ ~run.failed /\ server.doc = Doc("array", <<>>)) =>
       /\ run.phones = Doc("array", <<>>)
       /\ run.outcome \in {"neutral", "nomatch"}
       /\ console.table = 0
       /\ console.uncaught = 0
       /\ dom.tableBody \in {<<NeutralRow>>, <<NoMatchRow>>}

EmptyItemsLoadedOnIndex ==
  /\ page = "index"
  /\ boot.pc = "done"
  /\ boot.items = Doc("array", <<>>)
  /\ dom.view = "index"
  /\ dom.loadErrorHidden

\* a comparison render whose dataset was loaded and whose non-empty
\* identifier list matched none of its records
SelectionUnresolved ==
  /\ run.mod # 0
  /\ ~RenderWithoutDataset
  /\ Len(run.selectedIds) > 0
  /\ \A i \in 1..Len(run.selectedIds) : ~HasRecord(run.phones.recs, run.selectedIds[i])

\* C8: DataUnavailable and SelectionUnresolved are each handled where they
\* arise: a visible inline message, nothing uncaught, and a console log.
ErrorsVisibleCaughtAndLogged ==
  /\ boot.pc = "failed" =>
       (LoadErrorVisible /\ console.boot > 0 /\ console.uncaught = 0)
  /\ RenderWithoutDataset =>
       (ErrorMessageVisible /\ console.fetch + console.table > 0 /\ console.uncaught = 0)
  /\ SelectionUnresolved =>
       (ErrorMessageVisible /\ console.fetch + console.table > 0 /\ console.uncaught = 0)

\* ----------------------------------------------- index and detail pages
\* the index page has painted: renderCompare ran on the loaded record array
IndexPainted == page = "index" /\ dom.listening

\* the text a field contributes to the filter when a lacking field
\* contributes nothing
PresentText(v) == IF v.t \in {"undefined", "null"} THEN <<>> ELSE Spell(String(v))

\* the record matches as the contract words it: brand constraint empty or
\* equal, query empty or a case-insensitive substring of brand, model, id
\* and chipset name
MatchesAsSpecified(i, brandValue, qValue) ==
  /\ brandValue = "" \/ Get(i, "brand") = Str(brandValue)
  /\ \/ qValue = <<>>
     \/ Includes(text(PresentText(Get(i, "brand")) \o <<" ">> \o PresentText(Get(i, "model"))
                        \o <<" ">> \o PresentText(Get(i, "id"))
                        \o <<" ">> \o PresentText(Prop(Get(i, "chipset"), "name"))),
                 text(qValue))

\* C11: whenever a paint of the index page completes, the grid shows exactly
\* the records that match as the contract words it, a lacking field
\* contributing nothing a query can match.
IndexShowsSpecifiedMatches ==
  (IndexPainted /\ ~RepaintThrows(dom, boot.items.recs)) =>
    LET shown == SelectSeq(boot.items.recs,
                   LAMBDA i : MatchesAsSpecified(i, dom.brand, dom.q))
    IN  dom.grid = [n \in 1..Len(shown) |-> Card(shown[n])]

\* C15: on the detail page, once the dataset is loaded, the first record in
\* dataset order whose id is the id parameter is the one rendered; with no
\* such record, or no id parameter, the not-found block is shown, the found
\* block is hidden and no record is rendered.
DetailPageSelectsById ==
  (page = "phone" /\ boot.pc = "done" /\ boot.items.kind = "array") =>
    LET D == boot.items.recs
    IN  IF loc.id # "" /\ HasRecord(D, loc.id)
          THEN \E j \in 1..Len(D) :
                 /\ Get(D[j], "id") = Str(loc.id)
                 /\ \A h \in 1..(j - 1) : Get(D[h], "id") # Str(loc.id)
                 /\ dom.phoneName = <<String(Get(D[j], "brand")), " ", String(Get(D[j], "model"))>>
                 /\ dom.phoneSub[Len(dom.phoneSub)] = loc.id
                 /\ dom.view = "phone"
                 /\ dom.loadErrorHidden
          ELSE /\ ~dom.notfoundHidden
               /\ dom.foundHidden
               /\ dom.view = "notfound"
               /\ dom.phoneName = Markup
               /\ dom.pills = <<>>

FirstOfTwoRecordsWithTheId ==
  /\ page = "phone"
  /\ loc.id = "a"
  /\ boot.items.recs = <<PhoneZ, PhoneNoId, PhoneA2>>
  /\ dom.phoneName = <<"Acme", " ", "X1">>
  /\ dom.pills = <<"Z1">>

\* C16: on the painted index page, for the brand selected and every query q,
\* each record the filter matches with q it also matches with the empty
\* query; in particular the records now filtered are among those filtered
\* with the query cleared.
EmptyQueryMatchesSuperset ==
  IndexPainted =>
    /\ \A q \in Queries : \A n \in 1..Len(boot.items.recs) :
         matches(boot.items.recs[n], dom.brand, q) =>
           matches(boot.items.recs[n], dom.brand, <<>>)
    /\ LET now     == Filtered(boot.items.recs, dom.brand, dom.q)
           relaxed == Filtered(boot.items.recs, dom.brand, <<>>)
       IN  {now[n] : n \in 1..Len(now)} \subseteq {relaxed[n] : n \in 1..Len(relaxed)}

QueryNarrowsTheIndex ==
  /\ IndexPainted
  /\ dom.q = <<"B">>
  /\ boot.items.recs = <<PhoneB, PhoneA2>>
  /\ Filtered(boot.items.recs, dom.brand, dom.q) = <<PhoneB>>
  /\ Len(dom.grid) = 1
  /\ Len(Filtered(boot.items.recs, dom.brand, <<>>)) = 2

\* C18: after the initial paint and after every input or change event the
\* grid holds exactly one card per record matching the current control
\* values, in dataset order, and the count label shows that number.
GridShowsEveryMatch ==
  IndexPainted =>
    LET filtered == Filtered(boot.items.recs, dom.brand, dom.q)
    IN  /\ dom.grid = [n \in 1..Len(filtered) |-> Card(filtered[n])]
        /\ dom.count = [n |-> Len(dom.grid), unit |-> " phones"]

\* ------------------------------------------------ where the selection comes from
\* the identifiers a comma-separated text holds, trimmed; none for no text
\* or the empty text
ListOf(raw) ==
  IF raw = <<>> \/ raw = EmptyText THEN <<>> ELSE [n \in 1..Len(raw) |-> raw[n].core]

\* C14 as stated: the selection of a render is the list of the ids parameter
\* when the URL carries one; the data-ids list decides only when the URL has
\* no query parameters.
QueryIdsDetermineSelection ==
  /\ (run.mod \in {1, 2} /\ loc.ids # <<>>) => run.selectedIds = ListOf(loc.ids)
  /\ (run.mod \in {1, 2} /\ ~loc.query /\ attr.present) => run.selectedIds = ListOf(attr.raw)

\* C14, amended: on a page with an element carrying data-ids the selection
\* is the trimmed comma-separated list of that attribute, whatever the URL
\* holds; only on a page without such an element is it the list of the ids
\* query parameter.
DataIdsDetermineSelection ==
  /\ (run.mod \in {1, 2} /\ attr.present) => run.selectedIds = ListOf(attr.raw)
  /\ (run.mod \in {1, 2} /\ ~attr.present) => run.selectedIds = ListOf(loc.ids)

DataIdsOverrideQuery ==
  /\ run.mod \in {1, 2}
  /\ loc.ids = <<Piece("b")>>
  /\ attr = [present |-> TRUE, raw |-> <<Piece("a")>>]
  /\ run.selectedIds = <<"a">>
  /\ run.outcome = "table"

\* ------------------------------------------------- renders and metadata
\* the script tags addStructuredData has created
ProductTags == {n \in 1..Len(dom.jsonld) : dom.jsonld[n].product}

\* C12: when a render has just repeated the record list of the render
\* before it, the header row, table body, title, description and heading
\* are those a single render of that list gives on the untouched page; and
\* in every state the document holds at most one script tag created by
\* addStructuredData.
RenderingTwiceIsRenderingOnce ==
  /\ Cardinality(ProductTags) <= 1
  /\ run.again =>
       LET once == RenderTable(InitialDom, run.mod, run.selectedPhones)
       IN  /\ dom.tableHeader = once.tableHeader
           /\ dom.tableBody = once.tableBody
           /\ dom.title = once.title
           /\ dom.description = once.description
           /\ dom.heading = once.heading

SameSelectionRenderedTwice ==
  /\ run.again
  /\ run.mod = 3
  /\ run.selectedPhones = <<PhoneB, PhoneA>>
  /\ loc.depth = 2
  /\ Cardinality(ProductTags) = 1
  /\ Len(dom.tableHeader) = 3

\* C13: after any sequence of successful renders the title, description,
\* heading and the JSON-LD block describe the record list of the most
\* recent render.
MetadataDescribesLastRender ==
  (run.mod = 3 /\ run.outcome = "table") =>
    LET models == Models(run.selectedPhones)
    IN  /\ dom.heading = models
        /\ dom.title = models \o <<" - Specs Comparison - SpecLedger">>
        /\ dom.description = <<"Compare ">> \o models \o <<" side-by-side ...">>
        /\ \E n \in ProductTags : dom.jsonld[n].name = models

\* C17: at no time are two dataset fetches, or two renders, in flight
\* together.
NoOverlappingFetches == Cardinality(pending) <= 1

\* C19: on a page without a data-ids element, once init has run, whenever
\* the URL has a non-empty query string the robots meta tag exists with
\* the content 'noindex, follow'.
QueryPagesAreNoindex ==
  (phase = "ready" /\ ~isProgrammaticPage(attr) /\ hasQueryParams(loc)) =>
    dom.robots = "noindex, follow"

\* C20: once validatePhoneSelection has run, the compare button is enabled
\* iff both dropdowns hold a non-empty value and the values differ, and the
\* message 'Please select different phones to compare.' is visible iff both
\* values are non-empty and equal.
ButtonFollowsSelection ==
  dom.validated =>
    /\ ~dom.compareDisabled <=>
         (dom.select1 # "" /\ dom.select2 # "" /\ dom.select1 # dom.select2)
    /\ (dom.builderErrorDisplay = "block" /\ dom.builderErrorText = DifferentPhonesMessage) <=>
         (dom.select1 # "" /\ dom.select2 # "" /\ dom.select1 = dom.select2)

SamePhoneChosenTwice ==
  /\ dom.validated
  /\ dom.select1 = "b"
  /\ dom.select2 = "b"
  /\ dom.compareDisabled
  /\ dom.builderErrorDisplay = "block"
  /\ loc.depth = 1

\* ------------------------------------------------------ builder submissions
\* C21: a click on the compare button changes the URL (one more history
\* entry) and starts a comparison render iff both dropdown values are
\* non-empty and different, and the selection then read back from the URL
\* by getComparisonIds is exactly <<value1, value2>>; otherwise the URL, the
\* history and the comparison table are unchanged and a builder error
\* message is shown.
ClickChangesUrlIffValid ==
  [][ Click =>
        IF dom.select1 # "" /\ dom.select2 # "" /\ dom.select1 # dom.select2
          THEN /\ loc' # loc
               /\ loc'.depth = loc.depth + 1
               /\ getComparisonIds(loc', attr) = <<dom.select1, dom.select2>>
               /\ \E p \in pending' \ pending :
                    p.fn = "table" /\ p.ids = <<dom.select1, dom.select2>>
          ELSE /\ loc' = loc
               /\ pending' = pending
               /\ dom'.tableHeader = dom.tableHeader
               /\ dom'.tableBody = dom.tableBody
               /\ dom'.builderErrorDisplay = "block"
               /\ dom'.builderErrorText \in {BothPhonesMessage, DifferentPhonesMessage} ]_vars

\* no generateComparisonTable call is suspended at its fetch
NoRenderInFlight == \A p \in pending : p.fn # "table"

\* C22: after builder submissions, once every render in flight has
\* completed and the table shows phone columns, they are the columns of the
\* selection in the current URL, in whatever order the fetches settled.
TableShowsUrlSelection ==
  (page = "builder" /\ loc.depth >= 1 /\ NoRenderInFlight /\ run.outcome = "table") =>
    /\ run.selectedIds = getComparisonIds(loc, attr)
    /\ dom.tableHeader =
         HeaderRow(SelectedPhones(getComparisonIds(loc, attr), run.phones.recs))

\* C23: when the render that completed last ended on the zero-match or the
\* load-error path, the header row carries no phone column and the body is
\* the placeholder row of that path.
PlaceholderClearsHeader ==
  (page = "builder" /\ run.outcome \in {"nomatch", "error"}) =>
    /\ dom.tableHeader = << <<"Specification">> >>
    /\ dom.tableBody = IF run.outcome = "nomatch" THEN <<NoMatchRow>> ELSE <<ErrorRow>>

\* C24: on the builder page, when page load has come to rest (nothing in
\* flight, no submission yet), generateComparisonTable has run for the
\* selection of the URL: the neutral row for an empty selection, and a
\* one-column table for a single identifier that the dataset holds.
LoadedPageShowsAnOutcome ==
  (page = "builder" /\ phase = "ready" /\ pending = {} /\ loc.depth = 0) =>
    LET ids == getComparisonIds(loc, attr)
    IN  /\ run.mod = 3
        /\ run.selectedIds = ids
        /\ run.outcome \in {"neutral", "nomatch", "error", "table"}
        /\ Len(ids) = 0 => dom.tableBody = <<NeutralRow>>
        /\ (Len(ids) = 1 /\ run.phones.kind = "array" /\ HasRecord(run.phones.recs, ids[1])) =>
             (run.outcome = "table" /\ Len(dom.tableHeader) = 2)

====
